---- MODULE Spec2Model ----
(***************************************************************************)
(* Model of src/app.py: a Streamlit script that downloads a daily price    *)
(* history, adds rolling indicators to it, and prints a BUY/HOLD           *)
(* recommendation computed by make_decision from the final row.            *)
(*                                                                         *)
(* Numbers.  The program computes in binary floating point.  The model     *)
(* uses fixed-point integers: prices (Close, High, Low, SMA_50, SMA_200,   *)
(* Support, Resistance, entry, take-profit, stop-loss) are whole cents,    *)
(* and ratios (Daily Return, Volatility) are whole basis points (1/10000). *)
(* A quotient is rounded down to the unit.                                 *)
(*                                                                         *)
(* Cells.  A DataFrame cell is NaN or a number: NaN is the empty tuple and *)
(* the number v is <<v>>.  A None in the tuple make_decision returns is    *)
(* the empty tuple as well.                                                *)
(*                                                                         *)
(* Frames.  A DataFrame is a record of columns, each a sequence with one   *)
(* cell per row; row t of pandas (0-based) is index t + 1 of the sequence. *)
(* The Open and Volume columns are never read by the script and are left   *)
(* out.  A name that is not bound yet is the empty tuple.                  *)
(*                                                                         *)
(* Runs.  Spec is one run of the script from top to bottom, with the       *)
(* st.cache_data caches empty, so load_data calls yf.download.             *)
(* SpecDecision is make_decision called on its own, on enriched histories  *)
(* the pipeline need not produce (any final row, any bar count near 200).  *)
(***************************************************************************)
EXTENDS Integers, Sequences, FiniteSets, TLC

VARIABLES
    pc,            \* position of the script (or of the caller of make_decision)
    final_symbol,  \* line 25-30
    rows_fetched,  \* rows of the frame yf.download returned; -1 before the call
    downloads,     \* number of yf.download calls made
    df,            \* line 74-79
    exc,           \* the exception caught on line 140
    decision,      \* the tuple make_decision returned (line 129)
    shown,         \* the elements written to the page, in order
    prev           \* history variable: the previous direct call of make_decision

vars == <<pc, final_symbol, rows_fetched, downloads, df, exc, decision, shown, prev>>

-----------------------------------------------------------------------------
(* Program constants *)

SMA_SHORT == 50
SMA_LONG == 200
VOL_WINDOW == 30
LEVEL_WINDOW == 30
MIN_BARS == 200
\* 0.02, in basis points
VOL_LIMIT == 200
\* 1.02 and 0.98, in hundredths
TP_PCT == 102
SL_PCT == 98
RISK_REWARD == 2

-----------------------------------------------------------------------------
(* Bounds of the model *)

\* histories are up to this many bars shorter or longer than a window
MaxOver == 1
\* the price level moves up by at most this many steps of 10 percent
MaxRise == 2

-----------------------------------------------------------------------------
(* Cells *)

NaN == <<>>
None == <<>>
Num(v) == <<v>>
Val(c) == c[1]
isnull(c) == c = NaN

\* float(x) of line 58-62 succeeds on a numeric cell
IsFloat(c) == Len(c) = 1 /\ c[1] \in Int

Unbound == <<>>

-----------------------------------------------------------------------------
(* pandas: rolling windows and pct_change, on one column *)

\* running sums of rows lo..hi of a sequence of numbers
RECURSIVE RunningSums(_, _, _)
RunningSums(xs, lo, hi) ==
    IF lo = hi THEN <<xs[lo]>>
    ELSE LET mid == (lo + hi) \div 2
             left == RunningSums(xs, lo, mid)
             right == RunningSums(xs, mid + 1, hi)
         IN left \o [k \in 1..Len(right) |-> right[k] + left[Len(left)]]

\* prefix sums: Prefix(xs)[i + 1] is the sum of rows 1..i
Prefix(xs) == IF Len(xs) = 0 THEN <<0>> ELSE <<0>> \o RunningSums(xs, 1, Len(xs))

\* per row of a column: 1 for an observation and 0 for NaN; the value, the value
\* squared (0 for NaN: a rolling window skips NaN and counts the observations)
Observed(col) == [i \in 1..Len(col) |-> IF isnull(col[i]) THEN 0 ELSE 1]
Values(col) == [i \in 1..Len(col) |-> IF isnull(col[i]) THEN 0 ELSE Val(col[i])]
Squares(col) == [i \in 1..Len(col) |-> IF isnull(col[i]) THEN 0 ELSE Val(col[i]) * Val(col[i])]

\* the window ending at row i holds w rows and w observations (min_periods = window)
WindowFull(nobs, w, i) == i >= w /\ nobs[i + 1] - nobs[i - w + 1] >= w

\* Series.rolling(window=w).mean()
rolling_mean(col, w) ==
    LET nobs == Prefix(Observed(col))
        sum == Prefix(Values(col))
    IN [i \in 1..Len(col) |->
           IF WindowFull(nobs, w, i)
           THEN Num((sum[i + 1] - sum[i - w + 1]) \div w)
           ELSE NaN]

RECURSIVE SqrtBetween(_, _, _)
SqrtBetween(x, lo, hi) ==
    IF lo >= hi THEN lo
    ELSE LET mid == (lo + hi + 1) \div 2
         IN IF mid * mid <= x THEN SqrtBetween(x, mid, hi) ELSE SqrtBetween(x, lo, mid - 1)

\* the square root, rounded down
Sqrt(x) == SqrtBetween(x, 0, IF x < 40000 THEN x ELSE 40000)

\* Series.rolling(window=w).std(): the sample standard deviation (ddof = 1)
rolling_std(col, w) ==
    LET nobs == Prefix(Observed(col))
        sum == Prefix(Values(col))
        ssq == Prefix(Squares(col))
    IN [i \in 1..Len(col) |->
           IF WindowFull(nobs, w, i)
           THEN LET s == sum[i + 1] - sum[i - w + 1]
                    q == ssq[i + 1] - ssq[i - w + 1]
                IN Num(Sqrt((w * q - s * s) \div (w * (w - 1))))
           ELSE NaN]

RECURSIVE WindowMax(_, _, _)
WindowMax(col, lo, hi) ==
    IF lo = hi THEN Val(col[lo])
    ELSE LET mid == (lo + hi) \div 2
             left == WindowMax(col, lo, mid)
             right == WindowMax(col, mid + 1, hi)
         IN IF right > left THEN right ELSE left

RECURSIVE WindowMin(_, _, _)
WindowMin(col, lo, hi) ==
    IF lo = hi THEN Val(col[lo])
    ELSE LET mid == (lo + hi) \div 2
             left == WindowMin(col, lo, mid)
             right == WindowMin(col, mid + 1, hi)
         IN IF right < left THEN right ELSE left

\* Series.rolling(window=w).max()
rolling_max(col, w) ==
    LET nobs == Prefix(Observed(col))
    IN [i \in 1..Len(col) |->
           IF WindowFull(nobs, w, i) THEN Num(WindowMax(col, i - w + 1, i)) ELSE NaN]

\* Series.rolling(window=w).min()
rolling_min(col, w) ==
    LET nobs == Prefix(Observed(col))
    IN [i \in 1..Len(col) |->
           IF WindowFull(nobs, w, i) THEN Num(WindowMin(col, i - w + 1, i)) ELSE NaN]

\* a faulty variant: the first row's return filled with 0 instead of left undefined
pct_change_filled(col) ==
    [i \in 1..Len(col) |->
        IF i = 1 \/ isnull(col[i]) \/ isnull(col[i - 1]) THEN Num(0)
        ELSE Num((Val(col[i]) * 10000) \div Val(col[i - 1]) - 10000)]

\* Series.pct_change(): Close(t) / Close(t-1) - 1, undefined on the first row
\* (the provider's histories hold no NaN in Close, so no NaN is padded over)
pct_change(col) ==
    [i \in 1..Len(col) |->
        IF i = 1 \/ isnull(col[i]) \/ isnull(col[i - 1]) THEN NaN
        ELSE Num((Val(col[i]) * 10000) \div Val(col[i - 1]) - 10000)]

-----------------------------------------------------------------------------
(* The script's functions *)

Return(value) == [ok |-> TRUE, value |-> value, error |-> None]
Raise(message) == [ok |-> FALSE, value |-> Unbound, error |-> message]

\* number of rows of a frame
len(data) == Len(data.Close)

\* a faulty variant: the frame is returned without the check for an empty one
load_data_unchecked(symbol, downloaded) == Return(downloaded)

\* load_data(symbol): downloaded is what yf.download(symbol, period) returned
load_data(symbol, downloaded) ==
    IF len(downloaded) = 0
    THEN Raise(<<"No data found for", symbol>>)
    ELSE Return(downloaded)

\* a faulty variant: the two levels returned in the other order
key_levels_swapped(data) ==
    <<rolling_min(data.Low, LEVEL_WINDOW), rolling_max(data.High, LEVEL_WINDOW)>>

\* key_levels(data): (high, low)
key_levels(data) ==
    <<rolling_max(data.High, LEVEL_WINDOW), rolling_min(data.Low, LEVEL_WINDOW)>>

\* a faulty variant: a window one bar short
sma_50_short(close) == rolling_mean(close, SMA_SHORT - 1)

\* line 75
sma_50(close) == rolling_mean(close, SMA_SHORT)

\* line 76
sma_200(close) == rolling_mean(close, SMA_LONG)

\* line 77
daily_return(close) == pct_change(close)

\* line 78
volatility(returns) == rolling_std(returns, VOL_WINDOW)

\* lines 75-79: the frame with the indicator columns added
add_indicators(data) ==
    LET levels == key_levels(data)
        returns == daily_return(data.Close)
    IN [Close |-> data.Close, High |-> data.High, Low |-> data.Low,
        SMA_50 |-> sma_50(data.Close),
        SMA_200 |-> sma_200(data.Close),
        DailyReturn |-> returns,
        Volatility |-> volatility(returns),
        Resistance |-> levels[1],
        Support |-> levels[2]]

\* data.iloc[-1], the columns make_decision reads
iloc_last(data) ==
    LET n == len(data)
    IN [SMA_50 |-> data.SMA_50[n], SMA_200 |-> data.SMA_200[n],
        Volatility |-> data.Volatility[n], Close |-> data.Close[n],
        Support |-> data.Support[n]]

Hold == <<"HOLD", None, None, None, None>>

\* a faulty variant: the target and the stop exchanged
Buy_exchanged(close) ==
    <<"BUY", Num(close), Num((close * SL_PCT) \div 100), Num((close * TP_PCT) \div 100),
      Num(RISK_REWARD)>>

\* line 68
Buy(close) ==
    <<"BUY", Num(close), Num((close * TP_PCT) \div 100), Num((close * SL_PCT) \div 100),
      Num(RISK_REWARD)>>

ReadColumns == {"SMA_50", "SMA_200", "Volatility", "Close", "Support"}

\* a faulty variant: Close >= Support in place of Close > Support
decide_row_nonstrict(latest) ==
    IF \E c \in ReadColumns : isnull(latest[c])
    THEN Hold
    ELSE IF Val(latest.SMA_50) > Val(latest.SMA_200) /\ Val(latest.Volatility) < VOL_LIMIT
            /\ Val(latest.Close) >= Val(latest.Support)
         THEN Buy(Val(latest.Close))
         ELSE Hold

\* a faulty variant: missing cells filled with 0 in place of the check for them
decide_row_filled(latest) ==
    LET filled == [c \in ReadColumns |-> IF isnull(latest[c]) THEN 0 ELSE Val(latest[c])]
    IN IF filled["SMA_50"] > filled["SMA_200"] /\ filled["Volatility"] < VOL_LIMIT
          /\ filled["Close"] > filled["Support"]
       THEN Buy(filled["Close"])
       ELSE Hold

\* lines 51-70, on the final row
decide_row(latest) ==
    IF \E c \in ReadColumns : isnull(latest[c])
    THEN Hold
    ELSE IF \E c \in ReadColumns : ~IsFloat(latest[c])
    THEN Hold
    ELSE LET sma50 == Val(latest.SMA_50)
             sma200 == Val(latest.SMA_200)
             vol == Val(latest.Volatility)
             close == Val(latest.Close)
             support == Val(latest.Support)
         IN IF sma50 > sma200 /\ vol < VOL_LIMIT /\ close > support
            THEN Buy(close)
            ELSE Hold

\* a faulty variant: one bar too few accepted
make_decision_short(data) ==
    IF len(data) < MIN_BARS - 1 THEN Hold ELSE decide_row(iloc_last(data))

\* a faulty variant: the row before the final one read
make_decision_earlier(data) ==
    IF len(data) < MIN_BARS THEN Hold
    ELSE LET n == len(data) - 1
         IN decide_row([SMA_50 |-> data.SMA_50[n], SMA_200 |-> data.SMA_200[n],
                        Volatility |-> data.Volatility[n], Close |-> data.Close[n],
                        Support |-> data.Support[n]])

\* make_decision(data)
make_decision(data) ==
    IF len(data) < MIN_BARS THEN Hold ELSE decide_row(iloc_last(data))

-----------------------------------------------------------------------------
(* The collaborators: the symbol directory, the page's inputs, the provider *)

NoSymbol == "<None>"

\* load_symbols()
stock_list == <<"AAPL">>

\* what the user may have typed into the text input
CustomInputs == {"", "  ", " zzzz "}

\* custom_symbol.strip().upper(), on CustomInputs
strip_upper(s) == IF s = " zzzz " THEN "ZZZZ" ELSE ""

\* lines 25-30
choose_symbol(selected_option, custom_symbol) ==
    IF strip_upper(custom_symbol) # "" THEN strip_upper(custom_symbol)
    ELSE IF selected_option # "" THEN selected_option
    ELSE NoSymbol

\* a history of n bars: Close is `before` up to the last `back` bars and `after`
\* on them; High and Low lie `spread` above and below Close
History(n, back, before, after, spread) ==
    LET close == [i \in 1..n |-> IF i <= n - back THEN before ELSE after]
    IN [Close |-> [i \in 1..n |-> Num(close[i])],
        High |-> [i \in 1..n |-> Num(close[i] + spread)],
        Low |-> [i \in 1..n |-> Num(close[i] - spread)]]

Windows == {LEVEL_WINDOW, VOL_WINDOW, SMA_SHORT, SMA_LONG}

Lengths == {0} \cup {w + d : w \in Windows, d \in -MaxOver..MaxOver}

StepBacks == {1, 2, VOL_WINDOW, VOL_WINDOW + 1, SMA_SHORT, SMA_SHORT + 1, SMA_LONG \div 2}

BaseLevel == 100 * 100

AfterLevels == {BaseLevel + 1000 * k : k \in -1..MaxRise}

Spreads == {0, 50}

\* what yf.download may return: nothing, a flat history, or one with one move
ProviderHistories ==
    {History(0, 0, BaseLevel, BaseLevel, 0)}
    \cup {History(n, 0, BaseLevel, BaseLevel, s) : n \in Lengths \ {0}, s \in Spreads}
    \cup UNION {{History(n, b, BaseLevel, a, s) :
                    b \in {x \in StepBacks : x < n},
                    a \in AfterLevels \ {BaseLevel}, s \in Spreads} : n \in Lengths \ {0}}

-----------------------------------------------------------------------------
(* The script, one run from top to bottom *)

Init ==
    /\ pc = "start"
    /\ final_symbol = NoSymbol
    /\ rows_fetched = -1
    /\ downloads = 0
    /\ df = Unbound
    /\ exc = None
    /\ decision = Unbound
    /\ shown = <<>>
    /\ prev = <<>>

\* lines 8-30: the title, the two inputs, the symbol
SelectSymbol ==
    /\ pc = "start"
    /\ \E selected_option \in {""} \cup {stock_list[i] : i \in 1..Len(stock_list)},
          custom_symbol \in CustomInputs :
           final_symbol' = choose_symbol(selected_option, custom_symbol)
    /\ shown' = Append(shown, <<"title", "Stock Analysis App">>)
    /\ pc' = "branch"
    /\ UNCHANGED <<rows_fetched, downloads, df, exc, decision, prev>>

\* lines 142-143
PromptForSymbol ==
    /\ pc = "branch"
    /\ final_symbol = NoSymbol
    /\ shown' = Append(shown, <<"info", "Please select or enter a stock symbol to continue.">>)
    /\ pc' = "done"
    /\ UNCHANGED <<final_symbol, rows_fetched, downloads, df, exc, decision, prev>>

\* line 74: df = load_data(final_symbol), or the ValueError it raises
LoadData ==
    /\ pc = "branch"
    /\ final_symbol # NoSymbol
    /\ \E downloaded \in ProviderHistories :
          LET r == load_data(final_symbol, downloaded)
          IN /\ rows_fetched' = len(downloaded)
             /\ downloads' = downloads + 1
             /\ IF r.ok
                THEN df' = r.value /\ exc' = exc /\ pc' = "indicators"
                ELSE df' = df /\ exc' = r.error /\ pc' = "except"
    /\ UNCHANGED <<final_symbol, decision, shown, prev>>

\* lines 75-79
AddIndicators ==
    /\ pc = "indicators"
    /\ df' = add_indicators(df)
    /\ pc' = "plot"
    /\ UNCHANGED <<final_symbol, rows_fetched, downloads, exc, decision, shown, prev>>

\* lines 81-124: the chart and the TradingView widget
Plot ==
    /\ pc = "plot"
    /\ shown' = shown \o <<<<"subheader", "Stock Price Chart">>, <<"pyplot", final_symbol>>,
                           <<"subheader", "TradingView Chart">>, <<"html", final_symbol>>>>
    /\ pc' = "decide"
    /\ UNCHANGED <<final_symbol, rows_fetched, downloads, df, exc, decision, prev>>

\* lines 126-129
Decide ==
    /\ pc = "decide"
    /\ shown' = Append(shown, <<"subheader", "Trading Decision">>)
    /\ decision' = make_decision(df)
    /\ pc' = "display"
    /\ UNCHANGED <<final_symbol, rows_fetched, downloads, df, exc, prev>>

\* lines 130-139
Display ==
    /\ pc = "display"
    /\ shown' = Append(shown, IF decision[1] = "BUY"
                              THEN <<"markdown", decision>>
                              ELSE <<"info", "Not worth it. HOLD.">>)
    /\ pc' = "done"
    /\ UNCHANGED <<final_symbol, rows_fetched, downloads, df, exc, decision, prev>>

\* lines 140-141
Except ==
    /\ pc = "except"
    /\ shown' = Append(shown, <<"error", "Error loading data:", exc>>)
    /\ pc' = "done"
    /\ UNCHANGED <<final_symbol, rows_fetched, downloads, df, exc, decision, prev>>

Next ==
    \/ SelectSymbol
    \/ PromptForSymbol
    \/ LoadData
    \/ AddIndicators
    \/ Plot
    \/ Decide
    \/ Display
    \/ Except

Spec == Init /\ [][Next]_vars

-----------------------------------------------------------------------------
(* make_decision called directly, on any enriched history *)

Row(sma_50_cell, sma_200_cell, volatility_cell, close_cell, support_cell) ==
    [Close |-> close_cell, High |-> Num(12000), Low |-> Num(9000),
     SMA_50 |-> sma_50_cell, SMA_200 |-> sma_200_cell, DailyReturn |-> Num(0),
     Volatility |-> volatility_cell, Resistance |-> Num(12000), Support |-> support_cell]

\* the final rows tried: each read column undefined, or on either side of its comparison
FinalRows ==
    {Row(a, b, v, c, s) :
        a \in {NaN, Num(9000), Num(10000), Num(11000)},
        b \in {NaN, Num(10000)},
        v \in {NaN, Num(100), Num(200), Num(300)},
        c \in {NaN, Num(9900), Num(10000), Num(10500)},
        s \in {NaN, Num(9900), Num(10000)}}

HoldRow == Row(Num(10000), Num(10000), Num(100), Num(10000), Num(10000))
BuyRow == Row(Num(11000), Num(10000), Num(100), Num(10500), Num(10000))

EarlierRows == {HoldRow, BuyRow}

\* column c of a frame of n rows that ends with rows `earlier` and `final`
Column(c, n, earlier, final) ==
    [i \in 1..n |-> IF i = n THEN final[c] ELSE IF i = n - 1 THEN earlier[c] ELSE HoldRow[c]]

EnrichedFrame(n, earlier, final) ==
    [Close |-> Column("Close", n, earlier, final),
     High |-> Column("High", n, earlier, final),
     Low |-> Column("Low", n, earlier, final),
     SMA_50 |-> Column("SMA_50", n, earlier, final),
     SMA_200 |-> Column("SMA_200", n, earlier, final),
     DailyReturn |-> Column("DailyReturn", n, earlier, final),
     Volatility |-> Column("Volatility", n, earlier, final),
     Resistance |-> Column("Resistance", n, earlier, final),
     Support |-> Column("Support", n, earlier, final)]

FrameLengths == {MIN_BARS - 1, MIN_BARS, MIN_BARS + MaxOver}

\* row i of a frame, all columns
RowAt(data, i) ==
    [Close |-> data.Close[i], High |-> data.High[i], Low |-> data.Low[i],
     SMA_50 |-> data.SMA_50[i], SMA_200 |-> data.SMA_200[i],
     DailyReturn |-> data.DailyReturn[i], Volatility |-> data.Volatility[i],
     Resistance |-> data.Resistance[i], Support |-> data.Support[i]]

FinalRow(data) == RowAt(data, len(data))

CallerInit ==
    /\ pc = "ready"
    /\ final_symbol = NoSymbol
    /\ rows_fetched = -1
    /\ downloads = 0
    /\ \E n \in FrameLengths, earlier \in EarlierRows, final \in FinalRows :
          df = EnrichedFrame(n, earlier, final)
    /\ exc = None
    /\ decision = Unbound
    /\ shown = <<>>
    /\ prev = <<>>

\* what the history variable keeps of a call
CallRecord(data, returned) == [rows |-> len(data), final |-> FinalRow(data), decision |-> returned]

\* decision = make_decision(df), a first time or again
CallMakeDecision ==
    /\ pc \in {"ready", "returned"}
    /\ decision' = make_decision(df)
    /\ prev' = IF pc = "returned" THEN CallRecord(df, decision) ELSE prev
    /\ pc' = "returned"
    /\ UNCHANGED <<final_symbol, rows_fetched, downloads, df, exc, shown>>

\* the caller goes on to another enriched history with the same final row
PassHistory ==
    /\ pc = "returned"
    /\ \E n \in FrameLengths, earlier \in EarlierRows :
          df' = EnrichedFrame(n, earlier, FinalRow(df))
    /\ prev' = CallRecord(df, decision)
    /\ pc' = "ready"
    /\ UNCHANGED <<final_symbol, rows_fetched, downloads, exc, decision, shown>>

CallerNext ==
    \/ CallMakeDecision
    \/ PassHistory

SpecDecision == CallerInit /\ [][CallerNext]_vars

-----------------------------------------------------------------------------
(* Properties of make_decision, under SpecDecision *)

Returned == pc = "returned"
Latest == iloc_last(df)
AllDefined == \A c \in ReadColumns : ~isnull(Latest[c])
BuyRule ==
    /\ Val(Latest.SMA_50) > Val(Latest.SMA_200)
    /\ Val(Latest.Volatility) < VOL_LIMIT
    /\ Val(Latest.Close) > Val(Latest.Support)

\* C1: on a history of at least 200 bars whose final row has the five read columns
\* defined, make_decision returns BUY exactly when SMA_50 > SMA_200, Volatility < 0.02
\* and Close > Support hold strictly on the final row, and HOLD otherwise.
C1_BuyIffRule ==
    (Returned /\ len(df) >= MIN_BARS /\ AllDefined) =>
        /\ decision[1] \in {"BUY", "HOLD"}
        /\ (decision[1] = "BUY") <=> BuyRule
        /\ ~BuyRule => decision = Hold

C1_Witness ==
    /\ Returned /\ len(df) >= MIN_BARS /\ AllDefined
    /\ Latest.SMA_50 = Num(11000) /\ Latest.SMA_200 = Num(10000)
    /\ Latest.Volatility = Num(100) /\ Latest.Close = Num(10500)
    /\ Latest.Support = Num(10000)
    /\ decision[1] = "BUY"

\* C2: on a history of fewer than 200 bars make_decision returns HOLD with the four
\* secondary fields None, whatever the final row holds.
C2_ShortHistoryHolds ==
    (Returned /\ len(df) < MIN_BARS) => decision = Hold

C2_Witness ==
    /\ Returned /\ len(df) = MIN_BARS - 1
    /\ AllDefined /\ BuyRule
    /\ decision = Hold

\* C3: on a history of at least 200 bars with one of the five read columns undefined
\* on the final row, make_decision returns HOLD with the four secondary fields None.
C3_MissingIndicatorHolds ==
    (Returned /\ len(df) >= MIN_BARS /\ ~AllDefined) => decision = Hold

C3_Witness ==
    /\ Returned /\ len(df) >= MIN_BARS
    /\ isnull(Latest.Support)
    /\ Latest.SMA_50 = Num(11000) /\ Latest.SMA_200 = Num(10000)
    /\ Latest.Volatility = Num(100) /\ Latest.Close = Num(10500)
    /\ decision = Hold

\* C4: a BUY carries entry = Close, take-profit = Close * 1.02, stop-loss = Close * 0.98
\* and the ratio 2, so stop-loss < entry < take-profit.
C4_BuyPrices ==
    (Returned /\ decision[1] = "BUY") =>
        /\ decision[2] = Latest.Close
        /\ Val(decision[3]) * 100 = Val(Latest.Close) * TP_PCT
        /\ Val(decision[4]) * 100 = Val(Latest.Close) * SL_PCT
        /\ decision[5] = Num(2)
        /\ Val(decision[4]) < Val(decision[2])
        /\ Val(decision[2]) < Val(decision[3])

C4_Witness ==
    /\ Returned
    /\ Latest.Close = Num(10500)
    /\ decision = <<"BUY", Num(10500), Num(10710), Num(10290), Num(2)>>

\* C8 as stated: two histories with equal final rows get the same Recommendation.
C8_SameFinalRowSameDecision ==
    (Returned /\ prev # <<>> /\ prev.final = FinalRow(df)) => prev.decision = decision

SameSide(m, n) == (m < MIN_BARS) <=> (n < MIN_BARS)

\* C8, amended: a call of make_decision leaves the history as it was, and two
\* histories with equal final rows that are both shorter than 200 bars or both at
\* least 200 bars long get the same Recommendation (so does a repeated call on
\* one history).
C8_SameFinalRowSameSide ==
    [][pc' = "returned" =>
          /\ df' = df
          /\ (prev' # <<>> /\ prev'.final = FinalRow(df') /\ SameSide(prev'.rows, len(df')))
                => prev'.decision = decision']_vars

C8_Witness ==
    /\ Returned /\ prev # <<>>
    /\ prev.final = FinalRow(df)
    /\ prev.rows # len(df) /\ prev.rows >= MIN_BARS /\ len(df) >= MIN_BARS
    /\ decision[1] = "BUY" /\ prev.decision = decision

\* C9: on a BUY the ratio 2 that is returned equals the ratio of the returned
\* prices, (take-profit - entry) / (entry - stop-loss).
C9_RatioMatchesPrices ==
    (Returned /\ decision[1] = "BUY") =>
        Val(decision[3]) - Val(decision[2])
            = Val(decision[5]) * (Val(decision[2]) - Val(decision[4]))

-----------------------------------------------------------------------------
(* Properties of the script, under Spec *)

Enriched == DOMAIN df = {"Close", "High", "Low", "SMA_50", "SMA_200", "DailyReturn",
                         "Volatility", "Resistance", "Support"}

RECURSIVE SumCells(_, _, _)
SumCells(col, lo, hi) ==
    IF lo = hi THEN Val(col[lo])
    ELSE SumCells(col, lo, (lo + hi) \div 2) + SumCells(col, (lo + hi) \div 2 + 1, hi)

IsShown(kind) == \E i \in 1..Len(shown) : shown[i][1] = kind

\* C5: when the provider returns no rows, load_data raises "No data found": the frame
\* is never bound nor enriched, make_decision is not called, one download was made,
\* and the page gets the error message and neither a chart nor a BUY or HOLD.
C5_NoDataNoRecommendation ==
    rows_fetched = 0 =>
        /\ pc \in {"except", "done"}
        /\ exc = <<"No data found for", final_symbol>>
        /\ df = Unbound
        /\ decision = Unbound
        /\ downloads = 1
        /\ ~IsShown("pyplot") /\ ~IsShown("markdown") /\ ~IsShown("info")
        /\ pc = "done" => shown[Len(shown)] = <<"error", "Error loading data:", exc>>

C5_Witness ==
    /\ rows_fetched = 0
    /\ pc = "done"
    /\ final_symbol = "ZZZZ"
    /\ IsShown("error")

\* C6: the enriched history has as many rows as the provider returned, in every
\* column; SMA_50 is defined on row t (0-based) exactly when t >= 49, and there it is
\* the mean of Close over rows t-49..t.
C6_Sma50 ==
    (Enriched /\ pc = "plot") =>
        /\ \A c \in DOMAIN df : Len(df[c]) = rows_fetched
        /\ \A i \in 1..len(df) :
              /\ ~isnull(df.SMA_50[i]) <=> i - 1 >= SMA_SHORT - 1
              /\ ~isnull(df.SMA_50[i]) =>
                    Val(df.SMA_50[i]) * SMA_SHORT = SumCells(df.Close, i - SMA_SHORT + 1, i)

C6_Witness ==
    /\ Enriched /\ pc = "plot"
    /\ len(df) > SMA_SHORT
    /\ isnull(df.SMA_50[SMA_SHORT - 1])
    /\ ~isnull(df.SMA_50[SMA_SHORT])
    /\ df.Close[len(df)] # df.Close[1]
    /\ df.SMA_50[len(df)] # df.Close[len(df)]

\* C7: Volatility is defined on a row only if the 30 Daily Returns of the window
\* ending there are; Daily Return is undefined on row 0, so Volatility is undefined
\* on rows 0..29 and defined on row 30, while Support and Resistance are defined from
\* row 29 on.
C7_VolatilityFromRow30 ==
    Enriched =>
        \A i \in 1..len(df) :
            /\ ~isnull(df.Volatility[i]) =>
                  \A j \in (i - VOL_WINDOW + 1)..i : j >= 1 /\ ~isnull(df.DailyReturn[j])
            /\ i = 1 => isnull(df.DailyReturn[i])
            /\ i - 1 <= VOL_WINDOW - 1 => isnull(df.Volatility[i])
            /\ i - 1 >= VOL_WINDOW => ~isnull(df.Volatility[i])
            /\ i - 1 >= LEVEL_WINDOW - 1 <=> ~isnull(df.Support[i])
            /\ i - 1 >= LEVEL_WINDOW - 1 <=> ~isnull(df.Resistance[i])

C7_Witness ==
    /\ Enriched
    /\ len(df) = VOL_WINDOW + 1
    /\ isnull(df.Volatility[VOL_WINDOW]) /\ ~isnull(df.Support[VOL_WINDOW])
    /\ ~isnull(df.Volatility[VOL_WINDOW + 1])
    /\ Val(df.Volatility[VOL_WINDOW + 1]) > 0

BarsInRange ==
    \A i \in 1..len(df) :
        Val(df.Low[i]) <= Val(df.Close[i]) /\ Val(df.Close[i]) <= Val(df.High[i])

\* C10: with Low <= Close <= High on every bar, every row t >= 29 of the enriched
\* history has Support <= Close <= Resistance; on the final row Close is never
\* below Support, and it equals Support only where Close = Low.
C10_CloseWithinLevels ==
    (Enriched /\ BarsInRange) =>
        /\ \A i \in LEVEL_WINDOW..len(df) :
              /\ Val(df.Support[i]) <= Val(df.Close[i])
              /\ Val(df.Close[i]) <= Val(df.Resistance[i])
        /\ len(df) >= LEVEL_WINDOW =>
              LET n == len(df)
              IN ~(Val(df.Close[n]) > Val(df.Support[n])) =>
                    /\ df.Close[n] = df.Support[n]
                    /\ df.Close[n] = df.Low[n]

C10_Witness ==
    /\ pc = "done"
    /\ Enriched /\ BarsInRange
    /\ len(df) >= MIN_BARS
    /\ df.Close[len(df)] = df.Support[len(df)]
    /\ Val(df.SMA_50[len(df)]) > Val(df.SMA_200[len(df)])
    /\ Val(df.Volatility[len(df)]) < VOL_LIMIT
    /\ decision = Hold

====
